---- MODULE Spec2Model ----
(***************************************************************************)
(* Model of panopaea's empirical ocean (src/panopaea/src/ocean/            *)
(* empirical.rs) and SPH smoothing kernels (src/panopaea/src/sph/          *)
(* kernel.rs).                                                             *)
(*                                                                         *)
(* Number models.                                                          *)
(*  - The grids of the ocean hold values of the generic float type T.      *)
(*    They are modelled in fixed point: the integer v stands for the real  *)
(*    v / Scale; products, quotients and roots are rounded to the nearest  *)
(*    unit, cos, sin, atan, exp, ln and tanh are evaluated by their       *)
(*    series.                                                              *)
(*  - The factors of a spectral amplitude (spectral density, directional   *)
(*    spreading) span more decades than the fixed point holds.  They are   *)
(*    kept by their natural logarithm in fixed point: the integer l stands *)
(*    for the real exp(l / Scale), products add, powers scale, and LZero   *)
(*    stands for 0.0.                                                      *)
(*  - The scalar closed forms (spectrum guards, depth attenuation,         *)
(*    kernels) are computed over exact rationals with a binary exponent,   *)
(*    [n |-> numerator, e |-> exponent, d |-> denominator] for             *)
(*    n / d * 2^e, so that machine epsilons are exact.                     *)
(***************************************************************************)
EXTENDS Integers, Sequences, FiniteSets, TLC

VARIABLES
    resolution,      \* Ocean.resolution
    fft_plan,        \* Ocean.fft_plan: how the planned transform leaves its input
    fft_buffer,      \* Ocean.fft_buffer
    displacement_x,  \* Ocean.displacement_x
    displacement_y,  \* Ocean.displacement_y
    displacement_z,  \* Ocean.displacement_z
    time,            \* propagate's argument `time` (call in progress / last call)
    parameters,      \* propagate's argument `parameters`
    samples,         \* propagate's argument `samples`
    omega,           \* propagate's argument `omega`
    displacement,    \* propagate's argument `displacement`, the output grid
    pc,              \* "idle" (fresh), inside propagate "pass1" / "pass2", "propagated"
    axis,            \* which of the three spectral_to_spatial calls is running
    done,            \* rows of the running parallel pass whose task has finished
    overwrites,      \* the call was handed the output grid that a call with another
                     \* time and another WaveField had written
    kernel,          \* last smoothing-kernel evaluation
    spectrum         \* last spectrum evaluation

vars == <<resolution, fft_plan, fft_buffer, displacement_x, displacement_y,
          displacement_z, time, parameters, samples, omega, displacement, pc,
          axis, done, overwrites, kernel, spectrum>>

oceanVars == <<resolution, fft_plan, fft_buffer, displacement_x, displacement_y,
               displacement_z, time, parameters, samples, omega, displacement,
               pc, axis, done, overwrites>>

----------------------------------------------------------------------------
(* Bounds of the model *)

MaxRes == 3        \* resolutions 1..MaxRes
MaxTime == 1       \* times 0..MaxTime
Scale == 10000     \* fixed-point units per 1.0

----------------------------------------------------------------------------
(* Fixed-point reals *)

Abs(a) == IF a < 0 THEN -a ELSE a
Sign(a) == IF a < 0 THEN -1 ELSE 1

\* Quotient by b > 0 rounded to the nearest integer, halves away from zero
\* (floats round to nearest, symmetrically in sign).
RoundDiv[a \in Int, b \in Int] ==
    IF a >= 0 THEN (a + b \div 2) \div b ELSE -((b \div 2 - a) \div b)

FromInt(n) == n * Scale
\* x * y / Scale for x, y >= 0, whole and fractional parts multiplied apart:
\* no intermediate result exceeds the product
FMulParts[x \in Int, y \in Int] ==
    (x \div Scale) * (y \div Scale) * Scale + (x \div Scale) * (y % Scale)
        + (x % Scale) * (y \div Scale) + RoundDiv[(x % Scale) * (y % Scale), Scale]

FMul[a \in Int, b \in Int] == Sign(a) * Sign(b) * FMulParts[Abs(a), Abs(b)]
FDiv[a \in Int, b \in Int] == RoundDiv[a * Scale, b]

\* one step of Newton's iteration for the square root of v
Newton[v \in Int, x \in Int] == (x + v \div x) \div 2

\* a power of two that is at least sqrt(v) and at most 4 * sqrt(v), v >= 1
NewtonStart(v) ==
    IF v < 65536
    THEN IF v < 256 THEN (IF v < 16 THEN 4 ELSE 16)
         ELSE (IF v < 4096 THEN 64 ELSE 256)
    ELSE IF v < 16777216 THEN (IF v < 1048576 THEN 1024 ELSE 4096)
         ELSE (IF v < 268435456 THEN 16384 ELSE 65536)

\* r or r - 1, whichever is floor(sqrt(v)), for r in floor(sqrt(v)) + {0, 1}
FloorRoot[v \in Int, r \in Int] == IF r * r > v THEN r - 1 ELSE r

\* floor(sqrt(v)) for 0 <= v < 2^31, and 0 for v < 0: six steps of Newton's
\* iteration from NewtonStart, which reach the root or the root plus one
Isqrt(v) ==
    IF v <= 0 THEN 0
    ELSE FloorRoot[v, Newton[v, Newton[v, Newton[v, Newton[v, Newton[v,
                         Newton[v, NewtonStart(v)]]]]]]]

\* s or s + 1, whichever is nearest to sqrt(v), for s = floor(sqrt(v))
NearestRoot[v \in Int, s \in Int] == IF v - s * s > s THEN s + 1 ELSE s

\* sqrt(v) rounded to the nearest integer
Rsqrt(v) == NearestRoot[v, Isqrt(v)]

\* T::sqrt
FSqrt[v \in Int] == Rsqrt(v * Scale)

\* T::new(PI), PI of std::f32::consts
Pi == RoundDiv[355 * Scale, 113]

\* T::default_epsilon() is far below one fixed-point unit, for f32 and for
\* f64: only values <= 0 lie below it.
BelowEpsilon(v) == v < 1

Complex(re, im) == [re |-> re, im |-> im]
CZero == Complex(0, 0)
CAdd(a, b) == Complex(a.re + b.re, a.im + b.im)
CMul(a, b) == Complex(FMul[a.re, b.re] - FMul[a.im, b.im],
                      FMul[a.re, b.im] + FMul[a.im, b.re])

\* The nested series 1 - x2/(d(d+1)) * (1 - x2/((d+2)(d+3)) * (...)) from the
\* divisor d(d+1) to the divisor last(last+1): the cosine series for d = 1,
\* the sine series over x for d = 2
TrigSeries[x2 \in Int, d \in Int, last \in Int] ==
    IF d = last THEN Scale - RoundDiv[x2, d * (d + 1)]
    ELSE Scale - RoundDiv[FMul[x2, TrigSeries[x2, d + 2, last]], d * (d + 1)]

\* cos and sin on [0, pi/2)
CosSeries(x) == TrigSeries[FMul[x, x], 1, 9]
SinSeries(x) == FMul[x, TrigSeries[FMul[x, x], 2, 8]]

HalfPi == RoundDiv[Pi, 2]

\* T::cos, T::sin: the angle a is a quarter turns plus a rest in [0, pi/2)
Cos(a) ==
    LET q == (a \div HalfPi) % 4
        f == a % HalfPi
    IN CASE q = 0 -> CosSeries(f)
         [] q = 1 -> -SinSeries(f)
         [] q = 2 -> -CosSeries(f)
         [] q = 3 -> SinSeries(f)

Sin(a) ==
    LET q == (a \div HalfPi) % 4
        f == a % HalfPi
    IN CASE q = 0 -> SinSeries(f)
         [] q = 1 -> CosSeries(f)
         [] q = 2 -> -SinSeries(f)
         [] q = 3 -> -CosSeries(f)

\* The nested series 1 + x/n * (1 + x/(n+1) * (...)) of exp(x) from the
\* term n to the term last, for |x| <= 1
ExpTerms[x \in Int, n \in Int, last \in Int] ==
    IF n = last THEN Scale + RoundDiv[x, n]
    ELSE Scale + RoundDiv[FMul[x, ExpTerms[x, n + 1, last]], n]

\* exp(-f) for 0 <= f <= 1
ExpNegSeries(f) == ExpTerms[-f, 1, 7]

\* exp(-n) for a natural number n < 12, from its decimal expansion
ExpNegInt(n) ==
    RoundDiv[Scale * (CASE n = 0 -> 100000 [] n = 1 -> 36788 [] n = 2 -> 13534
                        [] n = 3 -> 4979 [] n = 4 -> 1832 [] n = 5 -> 674
                        [] n = 6 -> 248 [] n = 7 -> 91 [] n = 8 -> 34
                        [] n = 9 -> 12 [] n = 10 -> 5 [] n = 11 -> 2),
             100000]

\* exp(-y) for y >= 0; below one fixed-point unit from y = 12 on
ExpNeg(y) ==
    IF y >= 12 * Scale THEN 0
    ELSE FMul[ExpNegInt(y \div Scale), ExpNegSeries(y % Scale)]

\* exp(f) for 0 <= f <= 1
ExpSeries[f \in Int] == ExpTerms[f, 1, 8]

\* 1000 * exp(n) for a natural number n < 12, from its decimal expansion
ExpThousandths(n) ==
    CASE n = 0 -> 1000 [] n = 1 -> 2718 [] n = 2 -> 7389 [] n = 3 -> 20086
      [] n = 4 -> 54598 [] n = 5 -> 148413 [] n = 6 -> 403429 [] n = 7 -> 1096633
      [] n = 8 -> 2980958 [] n = 9 -> 8103084 [] n = 10 -> 22026466
      [] n = 11 -> 59874142

\* t / 1000 in fixed point
FromThousandths[t \in Int] ==
    (t \div 1000) * Scale + RoundDiv[(t % 1000) * Scale, 1000]

\* T::exp.  From y = 12 on the value exceeds what 32 bits of fixed point
\* hold; the value just below 12 stands for it.
Exp[y \in Int] ==
    IF y <= 0 THEN ExpNeg(-y)
    ELSE IF y >= 12 * Scale
         THEN FMul[FromThousandths[ExpThousandths(11)], ExpSeries[Scale - 1]]
    ELSE FMul[FromThousandths[ExpThousandths(y \div Scale)], ExpSeries[y % Scale]]

\* ln 0.0: exp(LZero / Scale) is 0.0 in f32 and in f64
LZero == -100000000

\* The nested series 1/n + sign * y2 * (1/(n+2) + sign * y2 * (...)) from the
\* term n to the term last: atanh(y) / y for sign = 1, atan(y) / y for
\* sign = -1, with y2 = y * y
OddSeries[y2 \in Int, n \in Int, last \in Int, sign \in Int] ==
    IF n = last THEN RoundDiv[Scale, n]
    ELSE RoundDiv[Scale, n] + sign * FMul[y2, OddSeries[y2, n + 2, last, sign]]

\* ln(m), m in [1, 2), from y = (m - 1) / (m + 1) <= 1/3: ln m = 2 * atanh(y)
LnSeries[y \in Int] == 2 * FMul[y, OddSeries[FMul[y, y], 1, 9, 1]]

\* k * ln 2
KLn2[k \in Int] == Sign(k) * RoundDiv[RoundDiv[Abs(k) * 6931472, 1000] * Scale, 10000]

\* ln(x * 2^k), x > 0: x is halved or doubled into [1, 2)
LnFrom[x \in Int, k \in Int] ==
    IF x >= 2 * Scale THEN LnFrom[RoundDiv[x, 2], k + 1]
    ELSE IF x < Scale THEN LnFrom[2 * x, k - 1]
    ELSE LnSeries[FDiv[x - Scale, x + Scale]] + KLn2[k]

\* T::ln; LZero for x <= 0
Ln[x \in Int] == IF x < 1 THEN LZero ELSE LnFrom[x, 0]

\* product of two reals kept by their logarithms
LMul[a \in Int, b \in Int] == IF a <= LZero \/ b <= LZero THEN LZero ELSE a + b

\* atan(t) for |t| <= tan(pi/8)
AtanSeries[t \in Int] == FMul[t, OddSeries[FMul[t, t], 1, 13, -1]]

\* atan(t) for 0 <= t <= 1: atan t = pi/4 + atan((t - 1) / (t + 1))
AtanUnit[t \in Int] ==
    IF 1000 * t > 414 * Scale
    THEN RoundDiv[Pi, 4] + AtanSeries[FDiv[t - Scale, t + Scale]]
    ELSE AtanSeries[t]

\* atan(y / x) in [0, pi/2] for x, y >= 0, not both 0
AtanPositive[y \in Int, x \in Int] ==
    IF y <= x THEN AtanUnit[FDiv[y, x]] ELSE RoundDiv[Pi, 2] - AtanUnit[FDiv[x, y]]

\* T::atan2
Atan2[y \in Int, x \in Int] ==
    IF x = 0 /\ y = 0 THEN 0
    ELSE Sign(y) * (IF x < 0 THEN Pi - AtanPositive[Abs(y), Abs(x)]
                    ELSE AtanPositive[Abs(y), Abs(x)])

\* T::tanh
Tanh(x) ==
    LET t == ExpNeg(2 * Abs(x))
    IN Sign(x) * FDiv[Scale - t, Scale + t]

\* the closure sech: T::one() / x.cosh()
Sech(x) == FDiv[2 * ExpNeg(Abs(x)), Scale + ExpNeg(2 * Abs(x))]

----------------------------------------------------------------------------
(* Grids *)

Resolutions == 1..MaxRes
Idx(N) == 0..(N - 1)
Axes == {"x", "y", "z"}

\* Array2::from_elem((resolution, resolution), Complex::new(0, 0))
new_map(N) == [j \in Idx(N) |-> [i \in Idx(N) |-> CZero]]

\* Array2::from_elem((resolution, resolution), Vector3::zero())
new_displacement(N) == [j \in Idx(N) |-> [i \in Idx(N) |-> [x |-> 0, y |-> 0, z |-> 0]]]

\* output.t()
Transposed(g, N) == [j \in Idx(N) |-> [i \in Idx(N) |-> g[i][j]]]

----------------------------------------------------------------------------
(* Parameters *)

\* T::new of a decimal literal, given in thousandths
Milli(n) == RoundDiv[n * Scale, 1000]

\* deep open water under a wind of 10 m/s over a fetch of 50 km, simulated
\* on a domain of 64 m
OpenSea ==
    [surface_tension |-> Milli(72), water_density |-> FromInt(1000),
     water_depth |-> FromInt(1000), gravity |-> Milli(9810),
     wind_speed |-> FromInt(10), fetch |-> FromInt(50000), swell |-> 0,
     domain_size |-> FromInt(64)]

\* a bay 5 m deep with swell, under a wind of 12 m/s over a fetch of 20 km,
\* simulated on a domain of 16 m
Bay ==
    [surface_tension |-> Milli(72), water_density |-> FromInt(1000),
     water_depth |-> FromInt(5), gravity |-> Milli(9810),
     wind_speed |-> FromInt(12), fetch |-> FromInt(20000), swell |-> Milli(250),
     domain_size |-> FromInt(16)]

----------------------------------------------------------------------------
(* build_height_spectrum / sample_spectrum / dispersion_capillary *)

\* 2 * i as isize - resolution as isize - 1
WaveNumber(i, N) == 2 * i - N - 1

\* cgmath::vec2(pi * x / domain_size, pi * y / domain_size)
Wavevector(p, j, i, N) ==
    [x |-> FDiv[FMul[Pi, FromInt(WaveNumber(i, N))], p.domain_size],
     y |-> FDiv[FMul[Pi, FromInt(WaveNumber(j, N))], p.domain_size]]

Magnitude(k) == Rsqrt(k.x * k.x + k.y * k.y)

\* (dispersion, grad_dispersion) for the wave number k
dispersion_capillary(p, k) ==
    LET sigma == p.surface_tension
        rho == p.water_density
        g == p.gravity
        h == p.water_depth
        hk == FMul[h, k]
        body == FMul[g, k] + FMul[FDiv[sigma, rho], FMul[FMul[k, k], k]]
        dispersion == FSqrt[FMul[body, Tanh(hk)]]
        grad_dispersion ==
            FDiv[FMul[FMul[h, FMul[Sech(hk), Sech(hk)]], body]
                   + FMul[Tanh(hk),
                          g + FMul[FMul[FromInt(3), FDiv[sigma, rho]], FMul[k, k]]],
                 FMul[FromInt(2), dispersion]]
    IN <<dispersion, grad_dispersion>>

----------------------------------------------------------------------------
(* Spectra and directional spreading, in fixed point and logarithms *)

\* ln dispersion_peak(gravity, wind_speed, fetch)
dispersion_peak(g, u, f) ==
    Ln[FromInt(22)] + FMul[RoundDiv[Scale, 3], 2 * Ln[g] - Ln[u] - Ln[f]]

\* SpectrumJONSWAP { wind_speed, fetch, gravity }
JONSWAP(p) ==
    [kind |-> "JONSWAP", wind_speed |-> p.wind_speed, fetch |-> p.fetch,
     gravity |-> p.gravity, depth |-> 0]

\* SpectrumTMA { jonswap, depth }
TMA(p) ==
    [kind |-> "TMA", wind_speed |-> p.wind_speed, fetch |-> p.fetch,
     gravity |-> p.gravity, depth |-> p.water_depth]

\* the records JONSWAP and TMA build
SpectrumRecords ==
    [kind : STRING, wind_speed : Int, fetch : Int, gravity : Int, depth : Int]

\* r of SpectrumJONSWAP::evaluate: exp(-(omega - omega_peak)^2 /
\* (2 * (sigma * omega_peak)^2)), the square taken of the quotient; below
\* half a unit from a quotient of 4.6 on
PeakSharpening[omega_ \in Int, omega_peak \in Int, sigma \in Int] ==
    LET t == FDiv[omega_ - omega_peak, FMul[sigma, omega_peak]]
    IN IF 10 * Abs(t) >= 46 * Scale THEN 0 ELSE ExpNeg(RoundDiv[FMul[t, t], 2])

\* ln of the closed form [Horvath15] Eq. 28, for omega above epsilon;
\* lp is ln omega_peak, lo is ln omega.  exp(-5/4 (omega_peak / omega)^4)
\* is 0.0 in f32 and in f64 from (omega_peak / omega)^4 = exp(9) on.
LnEq28[s \in SpectrumRecords, omega_ \in Int, lp \in Int, lo \in Int] ==
    LET alpha == Ln[Milli(76)]
                   + FMul[Milli(220), 2 * Ln[s.wind_speed] - Ln[s.fetch] - Ln[s.gravity]]
        sigma == IF omega_ <= Exp[lp] THEN Milli(70) ELSE Milli(90)
        r == PeakSharpening[omega_, Exp[lp], sigma]
    IN IF 4 * (lp - lo) >= 9 * Scale THEN LZero
       ELSE alpha + 2 * Ln[s.gravity] - 5 * lo
              - FMul[Milli(1250), Exp[4 * (lp - lo)]] + FMul[r, Ln[Milli(3300)]]

\* ln SpectrumJONSWAP::evaluate(omega)
LnJonswap(s, omega_) ==
    IF BelowEpsilon(omega_) THEN LZero
    ELSE LnEq28[s, omega_, dispersion_peak(s.gravity, s.wind_speed, s.fetch), Ln[omega_]]

\* ln of the piecewise quadratic of kitaigorodskii_depth_attenuation;
\* lh is ln(omega * (depth / gravity))
LnQuadratic[lh \in Int] ==
    IF lh <= 0 THEN LMul[lh, lh] - Ln[FromInt(2)]
    ELSE IF lh >= Ln[FromInt(2)] THEN 0
    ELSE Ln[Scale - RoundDiv[FMul[2 * Scale - Exp[lh], 2 * Scale - Exp[lh]], 2]]

\* ln SpectrumTMA::kitaigorodskii_depth_attenuation(omega)
LnAttenuation(s, omega_) == LnQuadratic[LMul[Ln[omega_], Ln[s.depth] - Ln[s.gravity]]]

\* ln SpectrumTMA::evaluate(omega)
LnTma(s, omega_) ==
    IF s.depth < 1 THEN LZero ELSE LMul[LnJonswap(s, omega_), LnAttenuation(s, omega_)]

\* ln spectrum.evaluate(omega), by the implementation of the Spectrum
LnEvaluate(s, omega_) ==
    IF s.kind = "TMA" THEN LnTma(s, omega_) ELSE LnJonswap(s, omega_)

\* ln directional_elongation(parameters, omega, theta); powf(x, 0) is 1 for
\* every x, powf(0, y) is 0 for y > 0
ShapedCosine[shaping \in Int, c \in Int] ==
    IF shaping = 0 THEN 0
    ELSE IF c = 0 THEN LZero
    ELSE FMul[2 * shaping, Ln[c]]

directional_elongation(p, omega_, theta) ==
    LET lp == dispersion_peak(p.gravity, p.wind_speed, p.fetch)
        shaping == FMul[FMul[FromInt(16), Tanh(Exp[lp - Ln[omega_]])],
                        FMul[p.swell, p.swell]]
    IN ShapedCosine[shaping, Abs(Cos(RoundDiv[theta, 2]))]

\* ln beta of the Donelan-Banner spreading; lr is ln(omega / omega_peak)
DonelanBannerBeta[lr \in Int] ==
    IF Exp[lr] < Milli(950) THEN Ln[Milli(2610)] + FMul[Milli(1300), lr]
    ELSE IF Exp[lr] < Milli(1600) THEN Ln[Milli(2280)] - FMul[Milli(1300), lr]
    ELSE FMul[-Milli(400) + FMul[RoundDiv[8393 * Scale, 10000],
                                  Exp[-FMul[Milli(567), 2 * lr]]],
              Ln[FromInt(10)]]

\* ln(1 / cosh x)
LnSech[x \in Int] == Ln[FromInt(2)] - Abs(x) - Ln[Scale + ExpNeg(2 * Abs(x))]

\* ln(beta / (2 tanh(beta * pi)) * sech(beta * theta)^2); lb is ln beta
DonelanBanner[lb \in Int, theta \in Int] ==
    lb - Ln[2 * Tanh(FMul[Exp[lb], Pi])] + 2 * LnSech[FMul[Exp[lb], theta]]

\* ln directional_base_donelan_banner(parameters, omega, theta)
directional_base_donelan_banner(p, omega_, theta) ==
    DonelanBanner[DonelanBannerBeta[Ln[omega_]
                      - dispersion_peak(p.gravity, p.wind_speed, p.fetch)], theta]

\* number of intervals of the quadrature
Quadrature == 128

\* sum of v[lo] .. v[hi], by halves
RECURSIVE SumRange(_, _, _)
SumRange(v, lo, hi) ==
    IF lo = hi THEN v[lo]
    ELSE SumRange(v, lo, (lo + hi) \div 2) + SumRange(v, (lo + hi) \div 2 + 1, hi)

\* integration::trapezoidal_quadrature((a, b), n, f), f given by its logarithm
trapezoidal_quadrature(a, b, n, f) ==
    LET value == [i \in 0..n |-> Exp[f[a + RoundDiv[(b - a) * i, n]]]]
    IN RoundDiv[FMul[b - a, SumRange(value, 1, n - 1)
                              + RoundDiv[value[0] + value[n], 2]], n]

\* ln directional_spreading(parameters, omega, theta, directional_base_donelan_banner)
directional_spreading(p, omega_, theta) ==
    LET integrand[t \in Int] == LMul[directional_base_donelan_banner(p, omega_, t),
                                     directional_elongation(p, omega_, t)]
        normalization == trapezoidal_quadrature(-Pi, Pi, Quadrature, integrand)
    IN LMul[integrand[theta], -Ln[normalization]]

----------------------------------------------------------------------------
(* build_height_spectrum / sample_spectrum *)

\* The outcomes of rand::random() in one build, cell by cell: the generator
\* is a function of its state (seed) when the build starts.  z is the
\* standard normal draw, u the uniform draw in [0, 1).
normal_draw(seed, j, i) ==
    (IF (i + seed) % 2 = 0 THEN 1 ELSE -1) * (Scale \div (1 + ((j + 2 * i + seed) % 3)))
uniform_draw(seed, j, i) == (((seed + 1) * (2 * j + i) + seed) % 8) * (Scale \div 8)

\* z * sqrt(2 * spreading * sample * grad_k^2 * grad_omega / |pos|), the
\* factors given by their logarithms
Amplitude[z \in Int, spreading \in Int, sample \in Int, grad_k \in Int, grad_omega \in Int, pos \in Int] ==
    FMul[z, Exp[RoundDiv[LMul[LMul[LMul[spreading, sample], grad_omega],
                              Ln[FromInt(2)] + 2 * grad_k - pos], 2]]]

\* sample_spectrum(parameters, spectrum, pos) with the draws z and u
sample_spectrum(p, s, pos, z, u) ==
    IF BelowEpsilon(Magnitude(pos))
    THEN <<CZero, 0>>
    ELSE LET theta == Atan2[pos.y, pos.x]
             grad_k == FDiv[2 * Pi, p.domain_size]
             capillary == dispersion_capillary(p, Magnitude(pos))
             omega_ == capillary[1]
             grad_omega == capillary[2]
             spreading == directional_spreading(p, omega_, theta)
             sample == LnEvaluate(s, omega_)
             phase == FMul[2 * Pi, u]
             amplitude == Amplitude[z, spreading, sample, Ln[grad_k], Ln[grad_omega],
                                    Ln[Magnitude(pos)]]
         IN <<Complex(FMul[Cos(phase), amplitude], FMul[Sin(phase), amplitude]),
              omega_>>

\* (height_spectrum, omega) of build_height_spectrum(parameters, spectrum,
\* resolution), the generator in state seed
build_height_spectrum(p, s, N, seed) ==
    LET cell == [j \in Idx(N) |-> [i \in Idx(N) |->
                    sample_spectrum(p, s, Wavevector(p, j, i, N),
                                    normal_draw(seed, j, i), uniform_draw(seed, j, i))]]
        sampled[c \in [Idx(N) -> [Idx(N) -> [re : Int, im : Int] \X Int]]] ==
            <<[j \in Idx(N) |-> [i \in Idx(N) |-> c[j][i][1]]],
              [j \in Idx(N) |-> [i \in Idx(N) |-> c[j][i][2]]]>>
    IN sampled[cell]

----------------------------------------------------------------------------
(* Ocean::propagate: propagation step *)

\* T-valued times
Times == {FromInt(t) : t \in 0..MaxTime}

k_normalized(k) ==
    LET len == Magnitude(k)
    IN IF BelowEpsilon(len) THEN CZero
       ELSE Complex(FDiv[k.x, len], FDiv[k.y, len])

\* samples[(j, i)] * disp_pos + samples[(resolution-j-1, resolution-i-1)] * disp_neg
SampleAt(smp, om, t, j, i, N) ==
    LET dispersion == FMul[om[j][i], t]
        disp_pos == Complex(Cos(dispersion), Sin(dispersion))
        disp_neg == Complex(Cos(dispersion), -Sin(dispersion))
    IN CAdd(CMul(smp[j][i], disp_pos), CMul(smp[N - j - 1][N - i - 1], disp_neg))

\* the values written to *dx, *dy, *dz for cell (j, i)
PropagationCell(smp, om, t, p, j, i, N) ==
    LET kn == k_normalized(Wavevector(p, j, i, N))
        sample == SampleAt(smp, om, t, j, i, N)
    IN [x |-> CMul(Complex(0, -kn.re), sample),
        y |-> sample,
        z |-> CMul(Complex(0, -kn.im), sample)]

PropagationStep(smp, om, t, p, a, N) ==
    [j \in Idx(N) |-> [i \in Idx(N) |-> PropagationCell(smp, om, t, p, j, i, N)[a]]]

----------------------------------------------------------------------------
(* The transform primitive (fft::FFT::process, inverse plan, unnormalised) *)

\* w^e for the primitive root w = exp(+2 pi i / N) of the inverse plan
Twiddle(N, e) ==
    LET r == e % N
    IN CASE r = 0 -> Complex(Scale, 0)
         [] N = 2 -> Complex(-Scale, 0)
         [] N = 3 /\ r = 1 -> Complex(-RoundDiv[Scale, 2], RoundDiv[Rsqrt(3 * Scale * Scale), 2])
         [] N = 3 /\ r = 2 -> Complex(-RoundDiv[Scale, 2], -RoundDiv[Rsqrt(3 * Scale * Scale), 2])
         [] N = 4 /\ r = 1 -> Complex(0, Scale)
         [] N = 4 /\ r = 2 -> Complex(-Scale, 0)
         [] N = 4 /\ r = 3 -> Complex(0, -Scale)

RECURSIVE DftSum(_, _, _, _)
DftSum(row, k, n, N) ==
    IF n = N THEN CZero
    ELSE CAdd(CMul(row[n], Twiddle(N, n * k)), DftSum(row, k, n + 1, N))

\* the transform of one row
Dft(row, N) == [k \in Idx(N) |-> DftSum(row, k, 0, N)]

\* (mutant) the first cell of dst is not computed from src: it is given what
\* the last cell of dst held
ProcessStale(src, dst, N) ==
    [k \in Idx(N) |-> IF k = 0 THEN dst[N - 1] ELSE Dft(src, N)[k]]

\* plan.process(src, dst): what it leaves in dst.  The output is overwritten.
ProcessOutput(src, dst, N) == Dft(src, N)

\* plan.process(src, dst): what it leaves in src, which it uses as scratch
\* space.  The contents depend on the planned algorithm.
PlanKinds == {"kept", "inplace"}
ProcessScratch(plan, src, N) == IF plan = "kept" THEN src ELSE Dft(src, N)

----------------------------------------------------------------------------
(* Ocean: state machine of new / propagate *)

Rows(N) == Idx(N)

\* (mutant) the pass is taken as finished once one row task has finished
PassJoinedEarly(d, N) == d # {}

\* par_azip! returns when every row task of the pass has finished.
PassJoined(d, N) == d = Rows(N)

\* (mutant) the checkerboard with its parity reversed
CorrectionSignOdd(j, i, re) == IF (j + i) % 2 = 1 THEN -re ELSE re

\* correction step: the value written to dst.<a> of cell (j, i)
CorrectionSign(j, i, re) == IF (j + i) % 2 = 0 THEN -re ELSE re

\* correction step: the output cell after the pass for axis a
CorrectionCell(dst, src, a, j, i) == [dst EXCEPT ![a] = CorrectionSign(j, i, src.re)]

CorrectionPass(out, buf, a, N) ==
    [j \in Idx(N) |-> [i \in Idx(N) |-> CorrectionCell(out[j][i], buf[j][i], a, j, i)]]

AxisGridOf(a, gx, gy, gz) ==
    CASE a = "x" -> gx
      [] a = "y" -> gy
      [] a = "z" -> gz

\* the spectral grid of axis a
AxisGrid(a) == AxisGridOf(a, displacement_x, displacement_y, displacement_z)

\* the grid of the running axis becomes g, the other two stay
SetAxisGrid(g) ==
    /\ displacement_x' = IF axis = "x" THEN g ELSE displacement_x
    /\ displacement_y' = IF axis = "y" THEN g ELSE displacement_y
    /\ displacement_z' = IF axis = "z" THEN g ELSE displacement_z

NextAxis(a) == IF a = "x" THEN "y" ELSE "z"

Resting == pc \in {"idle", "propagated"}

\* the arguments of a call
CallArguments(t, p, smp, om) ==
    [time |-> t, parameters |-> p, samples |-> smp, omega |-> om]

\* Ocean::new(resolution), and a caller that has not called propagate yet
OceanInit ==
    /\ resolution \in Resolutions
    /\ fft_plan \in PlanKinds
    /\ fft_buffer = new_map(resolution)
    /\ displacement_x = new_map(resolution)
    /\ displacement_y = new_map(resolution)
    /\ displacement_z = new_map(resolution)
    /\ time = 0
    /\ parameters = OpenSea
    /\ samples = new_map(resolution)
    /\ omega = [j \in Idx(resolution) |-> [i \in Idx(resolution) |-> 0]]
    /\ displacement = new_displacement(resolution)
    /\ pc = "idle"
    /\ axis = "x"
    /\ done = {}
    /\ overwrites = FALSE

\* The parameter sets the caller has
ParameterSets == {OpenSea, Bay}

\* The calls of build_height_spectrum the caller has made: the parameters,
\* the Spectrum and the state of the random generator of each.
Builds == {<<OpenSea, TMA(OpenSea), 0>>, <<Bay, JONSWAP(Bay), 1>>}

\* What build_height_spectrum returned, by resolution
HeightSpectra ==
    {<<N, build_height_spectrum(b[1], b[2], N, b[3])>> :
        N \in Resolutions, b \in Builds}

\* The WaveFields (height_spectrum, omega) the caller has for an Ocean of
\* resolution N
WaveFields(N) == {f[2] : f \in {g \in HeightSpectra : g[1] = N}}

\* The output grids the caller has: the one of the call before, as that
\* call left it, or a new one from Ocean::new_displacement.
OutputGrids == {displacement, new_displacement(resolution)}

\* the N x N grids of complex amplitudes and of frequencies
ComplexGrids(N) == [Idx(N) -> [Idx(N) -> [re : Int, im : Int]]]
RealGrids(N) == [Idx(N) -> [Idx(N) -> Int]]

\* propagate(time, parameters, samples, omega, displacement) is entered with
\* grids of the resolution of the Ocean (par_azip panics on other shapes):
\* the propagation step fills the three spectral grids
Propagate(t, p, smp, om, out) ==
    /\ Resting
    /\ smp \in ComplexGrids(resolution)
    /\ om \in RealGrids(resolution)
    /\ displacement_x' = PropagationStep(smp, om, t, p, "x", resolution)
    /\ displacement_y' = PropagationStep(smp, om, t, p, "y", resolution)
    /\ displacement_z' = PropagationStep(smp, om, t, p, "z", resolution)
    /\ time' = t
    /\ parameters' = p
    /\ samples' = smp
    /\ omega' = om
    /\ displacement' = out
    /\ overwrites' = (/\ pc = "propagated"
                      /\ out = displacement
                      /\ t # time
                      /\ smp # samples
                      /\ om # omega)
    /\ pc' = "pass1"
    /\ axis' = "x"
    /\ done' = {}
    /\ UNCHANGED <<resolution, fft_plan, fft_buffer>>

\* one row task of a transform pass of spectral_to_spatial
RowTask(r) ==
    /\ pc \in {"pass1", "pass2"}
    /\ r \in Rows(resolution) \ done
    /\ LET src == AxisGrid(axis)[r]
       IN /\ fft_buffer' = [fft_buffer EXCEPT
                              ![r] = ProcessOutput(src, fft_buffer[r], resolution)]
          /\ SetAxisGrid([AxisGrid(axis) EXCEPT
                              ![r] = ProcessScratch(fft_plan, src, resolution)])
    /\ done' = done \cup {r}
    /\ UNCHANGED <<resolution, fft_plan, time, parameters, samples, omega,
                   displacement, pc, axis, overwrites>>

\* input.assign(&output.t()) between the two passes
Transpose ==
    /\ pc = "pass1"
    /\ PassJoined(done, resolution)
    /\ SetAxisGrid(Transposed(fft_buffer, resolution))
    /\ pc' = "pass2"
    /\ done' = {}
    /\ UNCHANGED <<resolution, fft_plan, fft_buffer, time, parameters, samples,
                   omega, displacement, axis, overwrites>>

\* the correction step after the second pass; then the next axis, or return
Correction ==
    /\ pc = "pass2"
    /\ PassJoined(done, resolution)
    /\ displacement' = CorrectionPass(displacement, fft_buffer, axis, resolution)
    /\ IF axis = "z"
       THEN pc' = "propagated" /\ axis' = "x"
       ELSE pc' = "pass1" /\ axis' = NextAxis(axis)
    /\ done' = {}
    /\ UNCHANGED <<resolution, fft_plan, fft_buffer, displacement_x, displacement_y,
                   displacement_z, time, parameters, samples, omega, overwrites>>

NoKernelCall == [kind |-> "none"]
NoSpectrumCall == [kind |-> "none"]

Init ==
    /\ OceanInit
    /\ kernel = NoKernelCall
    /\ spectrum = NoSpectrumCall

Next ==
    \/ /\ Resting
       /\ \E field \in WaveFields(resolution), p \in ParameterSets,
             t \in Times, out \in OutputGrids :
            Propagate(t, p, field[1], field[2], out)
       /\ UNCHANGED <<kernel, spectrum>>
    \/ \E r \in Rows(resolution) : RowTask(r) /\ UNCHANGED <<kernel, spectrum>>
    \/ Transpose /\ UNCHANGED <<kernel, spectrum>>
    \/ Correction /\ UNCHANGED <<kernel, spectrum>>

Spec == Init /\ [][Next]_vars

----------------------------------------------------------------------------
(* Exact rationals with a binary exponent, for the scalar closed forms *)

\* Euclid's algorithm, as a function so that each step works on values
GcdOf[a \in Nat, b \in Nat] == IF b = 0 THEN a ELSE GcdOf[b, a % b]
Gcd(a, b) == GcdOf[a, b]

\* 2^k
Pow2[k \in Nat] == IF k = 0 THEN 1 ELSE 2 * Pow2[k - 1]

\* the number of factors 2 of m > 0
TwoAdic[m \in Nat] == IF m % 2 = 1 THEN 0 ELSE 1 + TwoAdic[m \div 2]

RZero == [n |-> 0, e |-> 0, d |-> 1]
ROne == [n |-> 1, e |-> 0, d |-> 1]

\* n / d * 2^e in normal form: n and d odd and coprime, d > 0; zero is RZero
Q(n, d, e) ==
    IF n = 0 THEN RZero
    ELSE LET g == Gcd(Abs(n), Abs(d))
             n1 == Abs(n) \div g
             d1 == Abs(d) \div g
         IN [n |-> Sign(n) * Sign(d) * (n1 \div Pow2[TwoAdic[n1]]),
             e |-> e + TwoAdic[n1] - TwoAdic[d1],
             d |-> d1 \div Pow2[TwoAdic[d1]]]

\* n / d
R(n, d) == Q(n, d, 0)

RNeg(a) == [a EXCEPT !.n = -a.n]

\* a < b for a, b > 0.  The products of numerators and denominators stay
\* below 2^31, so a difference of more than 30 in the exponents decides.
PosLess(a, b) ==
    LET l == a.n * b.d
        r == b.n * a.d
        k == a.e - b.e
    IN IF k >= 0
       THEN IF k > 30 THEN FALSE ELSE l <= (r - 1) \div Pow2[k]
       ELSE IF -k > 30 THEN TRUE ELSE l \div Pow2[-k] < r

RLess(a, b) ==
    CASE a.n <= 0 /\ b.n > 0 -> TRUE
      [] a.n >= 0 /\ b.n <= 0 -> FALSE
      [] a.n < 0 /\ b.n = 0 -> TRUE
      [] a.n > 0 /\ b.n > 0 -> PosLess(a, b)
      [] a.n < 0 /\ b.n < 0 -> PosLess(RNeg(b), RNeg(a))

RLeq(a, b) == ~RLess(b, a)

RAdd(a, b) ==
    IF a.n = 0 THEN b
    ELSE IF b.n = 0 THEN a
    ELSE LET m == IF a.e < b.e THEN a.e ELSE b.e
             g == Gcd(a.d, b.d)
         IN Q(a.n * Pow2[a.e - m] * (b.d \div g) + b.n * Pow2[b.e - m] * (a.d \div g),
              (a.d \div g) * b.d, m)

RSub(a, b) == RAdd(a, RNeg(b))

\* 0 * b is 0 for every finite b; common factors are cancelled before multiplying
RMul(a, b) ==
    IF a.n = 0 THEN RZero
    ELSE IF b.n = 0 THEN RZero
    ELSE LET g1 == Gcd(Abs(a.n), b.d)
             g2 == Gcd(Abs(b.n), a.d)
         IN [n |-> (a.n \div g1) * (b.n \div g2),
             e |-> a.e + b.e,
             d |-> (a.d \div g2) * (b.d \div g1)]

RDiv(a, b) == RMul(a, [n |-> Sign(b.n) * b.d, e |-> -b.e, d |-> Abs(b.n)])
RMax(a, b) == IF RLess(a, b) THEN b ELSE a
RMin(a, b) == IF RLess(b, a) THEN b ELSE a

RECURSIVE RPowi(_, _)
RPowi(a, e) == IF e = 0 THEN ROne ELSE RMul(a, RPowi(a, e - 1))

\* f64::consts::PI
PiQ == R(355, 113)

----------------------------------------------------------------------------
(* Smoothing kernels (sph/kernel.rs) *)

MaxHalves == 5     \* smoothing radii 1/2 .. MaxHalves/2, radii 0 .. (MaxHalves+2)/2

SmoothingRadii == {R(k, 2) : k \in 1..MaxHalves}
Radii == {R(k, 2) : k \in 0..(MaxHalves + 2)}
\* radii around the kernels' epsilon that the viscosity kernel is also given
SmallRadii == {R(1, 200000), R(1, 1000000)}

\* cast::<f64, T>(0.00001)
KernelEps == R(1, 100000)

Poly6New(smoothing_radius) ==
    LET w_frac == R(315, 64)
        h9 == RPowi(smoothing_radius, 9)
    IN [h |-> smoothing_radius, w_const |-> RDiv(w_frac, RMul(PiQ, h9))]

\* (mutant) the operands of the cutoff comparison swapped
Poly6CutoffSwapped(h, radius) == RLeq(radius, h)

Poly6Cutoff(h, radius) == RLeq(h, radius)

Poly6W(self, radius) ==
    IF Poly6Cutoff(self.h, radius) THEN RZero
    ELSE LET diff == RSub(RPowi(self.h, 2), RPowi(radius, 2))
         IN RMul(self.w_const, RPowi(diff, 3))

SpikyNew(smoothing_radius) ==
    LET w_frac == R(15, 1)
        h6 == RPowi(smoothing_radius, 6)
    IN [h |-> smoothing_radius, w_const |-> RDiv(w_frac, RMul(PiQ, h6))]

SpikyW(self, radius) ==
    IF RLeq(self.h, radius) THEN RZero
    ELSE LET diff == RSub(self.h, radius)
         IN RMul(self.w_const, RPowi(diff, 3))

ViscosityNew(smoothing_radius) ==
    LET w_frac == R(15, 2)
        h3 == RPowi(smoothing_radius, 3)
    IN [h |-> smoothing_radius, w_const |-> RDiv(w_frac, RMul(PiQ, h3))]

ViscosityW(self, radius) ==
    IF RLeq(self.h, radius) \/ RLess(radius, KernelEps) THEN RZero
    ELSE LET two == R(2, 1)
             fac == RSub(RAdd(RAdd(RDiv(RNeg(RPowi(radius, 3)),
                                        RMul(two, RPowi(self.h, 3))),
                                   RPowi(RDiv(radius, self.h), 2)),
                              RDiv(self.h, RMul(two, radius))),
                         ROne)
         IN RMul(self.w_const, fac)

\* no kernel evaluated yet; the ocean is a fresh Ocean::new(1), never called
KernelInit ==
    /\ kernel = NoKernelCall
    /\ spectrum = NoSpectrumCall
    /\ resolution = 1
    /\ fft_plan = "kept"
    /\ fft_buffer = new_map(1)
    /\ displacement_x = new_map(1)
    /\ displacement_y = new_map(1)
    /\ displacement_z = new_map(1)
    /\ time = 0
    /\ parameters = OpenSea
    /\ samples = new_map(1)
    /\ omega = [j \in Idx(1) |-> [i \in Idx(1) |-> 0]]
    /\ displacement = new_displacement(1)
    /\ pc = "idle"
    /\ axis = "x"
    /\ done = {}
    /\ overwrites = FALSE

Poly6Call(h, r) ==
    /\ kernel' = [h |-> h, kind |-> "Poly6", radius |-> r, w |-> Poly6W(Poly6New(h), r)]
    /\ UNCHANGED <<oceanVars, spectrum>>

SpikyCall(h, r) ==
    /\ kernel' = [h |-> h, kind |-> "Spiky", radius |-> r, w |-> SpikyW(SpikyNew(h), r)]
    /\ UNCHANGED <<oceanVars, spectrum>>

ViscosityCall(h, r) ==
    /\ kernel' = [h |-> h, kind |-> "Viscosity", radius |-> r,
                  w |-> ViscosityW(ViscosityNew(h), r)]
    /\ UNCHANGED <<oceanVars, spectrum>>

KernelNext ==
    \/ \E h \in SmoothingRadii, r \in Radii : Poly6Call(h, r)
    \/ \E h \in SmoothingRadii, r \in Radii : SpikyCall(h, r)
    \/ \E h \in SmoothingRadii, r \in Radii \cup SmallRadii : ViscosityCall(h, r)

KernelSpec == KernelInit /\ [][KernelNext]_vars

\* C8: Poly6.w and Spiky.w are 0 for every radius >= the smoothing radius
\* (the radius equal to it included), Viscosity.w is 0 for every radius below
\* the kernel's epsilon (0 included).
KernelCutoff ==
    /\ (kernel.kind \in {"Poly6", "Spiky"} /\ RLeq(kernel.h, kernel.radius)) =>
            kernel.w = RZero
    /\ (kernel.kind = "Viscosity" /\ RLess(kernel.radius, KernelEps)) =>
            kernel.w = RZero

\* C8 witness: Poly6 evaluated beyond its smoothing radius.
KernelCutoffWitness ==
    /\ kernel.kind = "Poly6"
    /\ RLess(kernel.h, kernel.radius)
    /\ kernel.w = RZero

----------------------------------------------------------------------------
(* Spectrum models (ocean/empirical.rs) *)

MaxQuarters == 10   \* angular frequencies -2/4 .. MaxQuarters/4

\* the float types T the spectra are instantiated with
Reals == {"f32", "f64"}

\* T::default_epsilon(): 2^-23 for f32, 2^-52 for f64
DefaultEpsilon(T) == IF T = "f32" THEN Q(1, 1, -23) ELSE Q(1, 1, -52)

Omegas == {R(k, 4) : k \in (-2)..MaxQuarters}
\* angular frequencies at and just below the two epsilons
SmallOmegas == {Q(1, 1, -23), Q(1, 1, -24), Q(1, 1, -52), Q(1, 1, -53)}
WindSpeeds == {R(10, 1)}
Fetches == {R(50000, 1)}
Gravities == {R(1, 1), R(981, 100)}
Depths == {R(-1, 1), R(0, 1), R(1, 4), R(1, 1), R(4, 1), R(981, 25)}

SpectrumJONSWAP(u, f, g) == [gravity |-> g, wind_speed |-> u, fetch |-> f]
SpectrumTMA(j, d) == [jonswap |-> j, depth |-> d]

\* A value returned by evaluate: closed * factor.  `closed` is <<>> for the
\* number 1, or names one evaluation of the closed form of Eq. 28 by its
\* arguments.  The closed form (powf, exp) is not computed: nothing is said
\* here about its value, which can be any float, 0.0 by underflow included.
Exact(q) == [closed |-> <<>>, factor |-> q]
Eq28(self, omega_) ==
    [closed |-> <<self.wind_speed, self.fetch, self.gravity, omega_>>, factor |-> ROne]

\* value * q for a finite q
Scaled(value, q) == [value EXCEPT !.factor = RMul(@, q)]

\* (mutant) only negative frequencies are cut off
BelowCutoffNegative(T, omega_) == RLess(omega_, RZero)

\* omega < T::default_epsilon()
BelowCutoff(T, omega_) == RLess(omega_, DefaultEpsilon(T))

\* SpectrumJONSWAP::evaluate
JonswapEvaluate(T, self, omega_) ==
    IF BelowCutoff(T, omega_) THEN Exact(RZero) ELSE Eq28(self, omega_)

\* SpectrumTMA::kitaigorodskii_depth_attenuation
kitaigorodskii_depth_attenuation(self, omega_) ==
    LET omega_h == RMin(RMax(RMul(omega_, RDiv(self.depth, self.jonswap.gravity)),
                             RZero), R(2, 1))
    IN IF RLeq(omega_h, ROne)
       THEN RMul(R(1, 2), RPowi(omega_h, 2))
       ELSE RSub(ROne, RMul(R(1, 2), RPowi(RSub(R(2, 1), omega_h), 2)))

\* SpectrumTMA::evaluate
TmaEvaluate(T, self, omega_) ==
    Scaled(JonswapEvaluate(T, self.jonswap, omega_),
           kitaigorodskii_depth_attenuation(self, omega_))

SpectrumInit == KernelInit

JonswapCall(T, self, w) ==
    /\ spectrum' = [omega |-> w, kind |-> "JONSWAP", jonswap |-> self, depth |-> RZero,
                    value |-> JonswapEvaluate(T, self, w), real |-> T]
    /\ UNCHANGED <<oceanVars, kernel>>

TmaCall(T, self, w) ==
    /\ spectrum' = [omega |-> w, kind |-> "TMA", jonswap |-> self.jonswap,
                    depth |-> self.depth, value |-> TmaEvaluate(T, self, w),
                    real |-> T]
    /\ UNCHANGED <<oceanVars, kernel>>

AttenuationCall(self, w) ==
    /\ spectrum' = [omega |-> w, kind |-> "attenuation", jonswap |-> self.jonswap,
                    depth |-> self.depth,
                    value |-> Exact(kitaigorodskii_depth_attenuation(self, w))]
    /\ UNCHANGED <<oceanVars, kernel>>

SpectrumNext ==
    \/ \E T \in Reals, u \in WindSpeeds, f \in Fetches, g \in Gravities,
          w \in Omegas \cup SmallOmegas :
         JonswapCall(T, SpectrumJONSWAP(u, f, g), w)
    \/ \E T \in Reals, u \in WindSpeeds, f \in Fetches, g \in Gravities, d \in Depths,
          w \in Omegas \cup SmallOmegas :
         TmaCall(T, SpectrumTMA(SpectrumJONSWAP(u, f, g), d), w)
    \/ \E u \in WindSpeeds, f \in Fetches, g \in Gravities, d \in Depths, w \in Omegas :
         AttenuationCall(SpectrumTMA(SpectrumJONSWAP(u, f, g), d), w)

SpectrumSpec == SpectrumInit /\ [][SpectrumNext]_vars

\* C7: for every angular frequency <= 0 or below the epsilon of the float
\* type, JONSWAP.evaluate and TMA.evaluate return exactly 0.
SpectraZeroBelowEpsilon ==
    (/\ spectrum.kind \in {"JONSWAP", "TMA"}
     /\ \/ RLeq(spectrum.omega, RZero)
        \/ RLess(spectrum.omega, DefaultEpsilon(spectrum.real))) =>
        spectrum.value = Exact(RZero)

\* C7 witness: TMA evaluated for f64 at a positive frequency below its
\* epsilon, in water of positive depth.
TinyOmegaWitness ==
    /\ spectrum.kind = "TMA"
    /\ spectrum.real = "f64"
    /\ RLess(RZero, spectrum.omega)
    /\ RLess(spectrum.omega, DefaultEpsilon("f64"))
    /\ RLess(RZero, spectrum.depth)
    /\ spectrum.value = Exact(RZero)

\* C10 (as claimed): the attenuation is the piecewise quadratic of
\* omega_h = clamp(omega * sqrt(depth / gravity), 0, 2).  The square root is
\* the claim's: it is taken where depth / gravity is a perfect square, and
\* the value the code returned is compared with the claimed one.
AttenuationUsesSqrt ==
    LET ratio == RDiv(spectrum.depth, spectrum.jonswap.gravity)
        square == /\ ratio.n >= 0
                  /\ Isqrt(ratio.n) * Isqrt(ratio.n) = ratio.n
                  /\ Isqrt(ratio.d) * Isqrt(ratio.d) = ratio.d
                  /\ ratio.e % 2 = 0
        root == [n |-> Isqrt(ratio.n), e |-> ratio.e \div 2, d |-> Isqrt(ratio.d)]
        omega_h == RMin(RMax(RMul(spectrum.omega, root), RZero), R(2, 1))
        claimed == IF RLeq(omega_h, ROne)
                   THEN RMul(R(1, 2), RPowi(omega_h, 2))
                   ELSE RSub(ROne, RMul(R(1, 2), RPowi(RSub(R(2, 1), omega_h), 2)))
    IN (spectrum.kind = "attenuation" /\ square) => spectrum.value = Exact(claimed)

----------------------------------------------------------------------------
(* Reference definitions used by the properties of the ocean *)

\* one transform pass over every row of g
RowPass(g, N) == [r \in Idx(N) |-> Dft(g[r], N)]

\* the grid spectral_to_spatial is handed for the running axis
SpectralGrid == PropagationStep(samples, omega, time, parameters, axis, resolution)

\* spectral_to_spatial run on (input, output) with no other task interleaved:
\* what it leaves in output
SpectralToSpatial(input, output, N) ==
    LET pass1[in1 \in ComplexGrids(N)] ==
            [r \in Idx(N) |-> ProcessOutput(in1[r], output[r], N)]
        pass2[out1 \in ComplexGrids(N)] ==
            [r \in Idx(N) |-> ProcessOutput(Transposed(out1, N)[r], out1[r], N)]
    IN pass2[pass1[input]]

\* propagate run on a freshly constructed Ocean (Ocean::new) with a fresh
\* output grid (new_displacement): the output grid it leaves
FreshPropagate(call, N) ==
    LET grid(a) == PropagationStep(call.samples, call.omega, call.time,
                                   call.parameters, a, N)
        bx == SpectralToSpatial(grid("x"), new_map(N), N)
        ox == CorrectionPass(new_displacement(N), bx, "x", N)
        by == SpectralToSpatial(grid("y"), bx, N)
        oy == CorrectionPass(ox, by, "y", N)
        bz == SpectralToSpatial(grid("z"), by, N)
    IN CorrectionPass(oy, bz, "z", N)

\* the arguments of the call in progress / the last call
ThisCall == CallArguments(time, parameters, samples, omega)

ZeroWavevector(p, j, i, N) == BelowEpsilon(Magnitude(Wavevector(p, j, i, N)))

----------------------------------------------------------------------------
(* Properties of the ocean *)

\* C1: propagate is history-independent: whatever calls came before, with
\* whatever times, parameters and base grids, and whatever the output grid
\* held, the output grid after a call equals the output of a freshly
\* constructed Ocean with a fresh output grid for the arguments of that call.
PropagateHistoryIndependent ==
    pc = "propagated" => displacement = FreshPropagate(ThisCall, resolution)

\* C1 witness: a later call, at another time and with another WaveField than
\* the call before it, has returned; it was handed the output grid the call
\* before had filled, and has left a non-zero height in every cell.
PropagatedAgainWitness ==
    /\ pc = "propagated"
    /\ overwrites
    /\ resolution >= 2
    /\ \A j \in Idx(resolution), i \in Idx(resolution) : displacement[j][i].y # 0

\* C2 (as claimed): when the correction step reads fft_buffer, every cell of
\* the inverse-transformed grid has imaginary part zero.
SpatialFieldIsReal ==
    (pc = "pass2" /\ done = Rows(resolution)) =>
        \A j \in Idx(resolution), i \in Idx(resolution) : fft_buffer[j][i].im = 0

\* C3 (as claimed): the cell propagate pairs with (j, i) lies in the grid and
\* its wavevector is the negation of the wavevector of (j, i).
PartnerIsNegatedWavevector ==
    pc = "pass1" =>
        \A j \in Idx(resolution), i \in Idx(resolution) :
            LET pj == resolution - j - 1
                pi == resolution - i - 1
                k == Wavevector(parameters, j, i, resolution)
                partner == Wavevector(parameters, pj, pi, resolution)
            IN /\ pj \in Idx(resolution)
               /\ pi \in Idx(resolution)
               /\ partner.x = -k.x
               /\ partner.y = -k.y

\* C4 (as claimed): after the second pass fft_buffer holds the 2D transform
\* of the input grid in the orientation of the input: cell (r, c) is the sum
\* over (j, i) of input[j][i] * w^(j*r + i*c), the rows transformed first and
\* then the columns.  The transform is the claim's, not spectral_to_spatial.
OutputIsTransform2D ==
    LET N == resolution
        rows[in \in ComplexGrids(N)] == RowPass(in, N)
        claimed[of \in ComplexGrids(N)] ==
            [r \in Idx(N) |-> [c \in Idx(N) |->
                Dft([j \in Idx(N) |-> of[j][c]], N)[r]]]
    IN (pc = "pass2" /\ done = Rows(N)) => fft_buffer = claimed[rows[SpectralGrid]]

\* the spectral grid of axis a as the claim C5 describes it
AxisSpectrum(a, N) ==
    [j \in Idx(N) |-> [i \in Idx(N) |->
        LET unit == k_normalized(Wavevector(parameters, j, i, N))
            sample == SampleAt(samples, omega, time, j, i, N)
        IN CASE a = "x" -> CMul(Complex(0, -unit.re), sample)
             [] a = "y" -> sample
             [] a = "z" -> CMul(Complex(0, -unit.im), sample)]]

\* C5: a correction pass writes, in every cell, the negated real part of the
\* inverse-transformed value of its axis when row+col is even and the real
\* part when it is odd; x is transformed from -i*unit_x*sample, y from
\* sample, z from -i*unit_y*sample; the other two components stay.
CheckerboardCorrection ==
    [][(pc = "pass2" /\ pc' # "pass2") =>
        /\ fft_buffer = RowPass(Transposed(RowPass(AxisSpectrum(axis, resolution),
                                                   resolution), resolution), resolution)
        /\ \A j \in Idx(resolution), i \in Idx(resolution) :
             /\ displacement'[j][i][axis] =
                    IF (j + i) % 2 = 0 THEN -(fft_buffer[j][i].re)
                    ELSE fft_buffer[j][i].re
             /\ \A b \in Axes \ {axis} : displacement'[j][i][b] = displacement[j][i][b]
      ]_vars

\* C5 witness: the y pass has run on a grid with an even and an odd cell,
\* both non-zero, and has left the x component written before it.
CorrectionWitness ==
    /\ pc = "pass1"
    /\ axis = "z"
    /\ resolution >= 2
    /\ displacement[0][0].y = -(fft_buffer[0][0].re)
    /\ displacement[0][1].y = fft_buffer[0][1].re
    /\ displacement[0][0].y # 0
    /\ displacement[0][1].y # 0
    /\ displacement[0][1].x # 0
    /\ displacement[0][1].x # displacement[0][1].y

\* C6: in every interleaving of the row tasks, a row task touches only its
\* own row of the input and of the output; the transpose runs only after
\* every row of the first pass, and the second pass only after the
\* transpose; the output of the second pass is the same function of the
\* grid handed in, whatever the order of the row tasks was.
PassesAreOrdered ==
    [][/\ (done' # done /\ done' # {}) =>
            /\ pc \in {"pass1", "pass2"} /\ pc' = pc
            /\ \E r \in Rows(resolution) \ done :
                 /\ done' = done \cup {r}
                 /\ \A q \in Rows(resolution) \ {r} :
                      /\ fft_buffer'[q] = fft_buffer[q]
                      /\ AxisGridOf(axis, displacement_x', displacement_y',
                                    displacement_z')[q] = AxisGrid(axis)[q]
       /\ (pc = "pass1" /\ pc' = "pass2") =>
            /\ done = Rows(resolution)
            /\ done' = {}
            /\ fft_buffer = RowPass(SpectralGrid, resolution)
       /\ (pc = "pass2" /\ pc' # "pass2") =>
            /\ done = Rows(resolution)
            /\ fft_buffer = RowPass(Transposed(RowPass(SpectralGrid, resolution),
                                               resolution), resolution)
      ]_vars

\* C6 witness: rows of the second pass finished out of order, row 0 still
\* to run, on a grid that is not zero.
OutOfOrderWitness ==
    /\ pc = "pass2"
    /\ resolution >= 3
    /\ done = {1, 2}
    /\ fft_buffer[2] # fft_buffer[0]
    /\ AxisGrid(axis)[0] # [i \in Idx(resolution) |-> CZero]

\* C9 (as claimed): right after the propagation step, the three spectral
\* grids hold 0+0i in every cell whose wavevector is below epsilon.
ZeroWavevectorContributesZero ==
    (pc = "pass1" /\ axis = "x" /\ done = {}) =>
        \A j \in Idx(resolution), i \in Idx(resolution) :
            ZeroWavevector(parameters, j, i, resolution) =>
                /\ displacement_x[j][i] = CZero
                /\ displacement_y[j][i] = CZero
                /\ displacement_z[j][i] = CZero

====
